---- MODULE Spec2Model ----
(***************************************************************************)
(* A model of ws-shuffle-sim (src/index.js): the imperfect riffle shuffle, *)
(* the Fisher-Yates shuffle, the climax distance metric and the three      *)
(* simulation loops that drive them.                                       *)
(*                                                                         *)
(* JavaScript arrays are objects: `heap` maps every array object of the    *)
(* program to its current contents, and a variable that holds an array     *)
(* holds the object's name.  Array indices are those of JavaScript         *)
(* (0-based); position p of an array is element p + 1 of the sequence.     *)
(***************************************************************************)
EXTENDS Integers, Sequences, FiniteSets, TLC

VARIABLES
    heap,           \* array object -> contents
    pc,             \* position in the program
    deckInput,      \* riffleShuffle: the array passed in (an object)
    repetitions,    \* riffleShuffle: parameter
    splitError,     \* riffleShuffle: parameter
    packetError,    \* riffleShuffle: parameter
    deck,           \* riffleShuffle: the array being rebuilt (an object)
    i,              \* riffleShuffle: repetition counter of the for loop
    leftHalf,       \* riffleShuffle: contents of the local array leftHalf
    leftCount,      \* riffleShuffle: local
    rightCount,     \* riffleShuffle: local (the insertion cursor)
    takeAmount,     \* riffleShuffle: packet size drawn in the last iteration
    U,              \* history: the offset drawn at line 52 by the split just
                    \*          made (0 once the interleave has begun)
    leftAtSplit,    \* history: leftHalf as cut off at line 53
    rightAtSplit,   \* history: deck as left by the cut at line 53
    iters,          \* history: interleave iterations run in this repetition
    clamped,        \* history: this call made a splice whose count or start
                    \*          was outside the array and was clamped
    array,          \* fisherYatesShuffle: the array passed in (an object)
    fyI,            \* fisherYatesShuffle: loop index i
    draws,          \* history: the draws j of the current fisherYatesShuffle call
    fyInput,        \* history: contents of `array` when the call began
    distArray,      \* calculateAverageDistance: contents of the array passed in
    distI,          \* calculateAverageDistance: loop index i
    distanceSum,    \* calculateAverageDistance: local
    count,          \* calculateAverageDistance: local
    lastOneIndex,   \* calculateAverageDistance: local
    result,         \* calculateAverageDistance: value returned, <<num, den>>
    seed,           \* simulation: which loop runs ("none" outside the simulation)
    simI,           \* simulation: loop index i of the running loop
    shuffled        \* simulation: seed -> number of arrays pushed to its
                    \*          ...ShuffledArrays (the loops never read them)

vars == <<heap, pc, deckInput, repetitions, splitError, packetError, deck, i,
          leftHalf, leftCount, rightCount, takeAmount, U, leftAtSplit,
          rightAtSplit, iters, clamped, array, fyI, draws, fyInput, distArray, distI,
          distanceSum, count, lastOneIndex, result, seed, simI, shuffled>>

riffleVars == <<deckInput, repetitions, splitError, packetError, deck, i,
                leftHalf, leftCount, rightCount, takeAmount, U, leftAtSplit,
                rightAtSplit, iters, clamped>>
fyVars == <<array, fyI, draws, fyInput>>
distVars == <<distArray, distI, distanceSum, count, lastOneIndex, result>>
simVars == <<seed, simI, shuffled>>

----------------------------------------------------------------------------
(* Bounds of the model *)

MaxLen == 3             \* longest deck handed to riffleShuffle
MaxRepetitions == 2     \* largest `repetitions`
MaxSplitError == 2      \* largest `splitError`
MaxPacketError == 2     \* largest `packetError`
MaxIter == 3            \* interleave iterations explored per repetition
MaxFYLen == 4           \* longest array handed to fisherYatesShuffle
MaxDistLen == 7         \* longest array handed to calculateAverageDistance
MaxTrials == 2          \* trials explored per simulation loop
DeckLen == 2            \* length of the seed arrays in the simulation loops

----------------------------------------------------------------------------
(* Constants of the program, src/index.js lines 42-47 *)

REPETITIONS == 7
SPLIT_ERROR == 4
PACKET_ERROR == 4
DECK_LENGTH == 50       \* the length of bottomStacked, piled and unordered

----------------------------------------------------------------------------
(* JavaScript primitives *)

Min(a, b) == IF a <= b THEN a ELSE b
Max(a, b) == IF a >= b THEN a ELSE b

\* Math.floor(Math.random() * k): Math.random() is in [0, 1).
RandInt(k) == IF k > 0 THEN 0..(k - 1) ELSE k..0

\* ToIntegerOrInfinity of x2 / 2: truncation toward zero.
TruncHalf(x2) == IF x2 >= 0 THEN x2 \div 2 ELSE -((-x2) \div 2)

\* Array.prototype.splice: the index at which it acts, for an integer start.
ActualStart(len, start) ==
    IF start < 0 THEN Max(len + start, 0) ELSE Min(start, len)

\* Array.prototype.splice: the number of elements it deletes.
ActualDeleteCount(len, start, deleteCount) ==
    Min(Max(deleteCount, 0), len - ActualStart(len, start))

\* a.splice(start, deleteCount): the elements removed (the value returned).
SpliceRemoved(a, start, deleteCount) ==
    LET s == ActualStart(Len(a), start)
        d == ActualDeleteCount(Len(a), start, deleteCount)
    IN  SubSeq(a, s + 1, s + d)

\* a.splice(start, deleteCount): the array afterwards.
SpliceRest(a, start, deleteCount) ==
    LET s == ActualStart(Len(a), start)
        d == ActualDeleteCount(Len(a), start, deleteCount)
    IN  SubSeq(a, 1, s) \o SubSeq(a, s + d + 1, Len(a))

\* SpliceInsert as an insertion that does nothing when start is no position
\* of the array
SpliceInsertUnclamped(a, start, items) ==
    IF 0 <= start /\ start <= Len(a)
    THEN SubSeq(a, 1, start) \o items \o SubSeq(a, start + 1, Len(a))
    ELSE a

\* a.splice(start, 0, ...items): the array afterwards.
SpliceInsert(a, start, items) ==
    LET s == ActualStart(Len(a), start)
    IN  SubSeq(a, 1, s) \o items \o SubSeq(a, s + 1, Len(a))

----------------------------------------------------------------------------
(* The array objects of the program *)

\* The array a call of riffleShuffle is handed when it is called on its own.
Input == "input"
\* The array `[...deckInput]` creates.  Every call creates its own; the one
\* of an earlier call is reachable only through the array of results, which
\* nothing writes to, so one name serves all calls.
Fresh == "copy"

\* CopyTarget as `let deck = deckInput`: no copy is made
CopyTargetAliased(a) == a

\* `let deck = [...deckInput]`: the object `deck` is bound to.
CopyTarget(a) == Fresh

----------------------------------------------------------------------------
(* riffleShuffle, src/index.js lines 49-65 *)

\* CutDeckVariant2 with the offset centred (u from -4 to 4) before
\* splitError is subtracted
CutDeckVariant2Centred(len, u, se) == len + 2 * (u - 4 - se)

\* Twice `deck.length / 2 + Math.floor(Math.random() * 9) - splitError`
\* (the value is a multiple of 1/2; u is the draw).
CutDeckVariant2(len, u, se) == len + 2 * (u - se)

\* `leftHalf.splice(leftCount, takeAmount)`: the packet taken.
Packet(lh, lc, t) == SpliceRemoved(lh, lc, t)

\* `rightCount - Math.floor(Math.random() * packetError) + takeAmount`
NextRightCount(rc, w, t) == rc - w + t

\* whether x is a position of an array of length len
InRange(x, len) == 0 <= x /\ x <= len

\* The variables declared in the body of the for loop (leftHalf, leftCount,
\* rightCount, takeAmount) exist only during one repetition, and so does
\* what the history variables record of it: these are their values outside.
BodyLocalsGone ==
    /\ leftHalf = <<>>
    /\ leftCount = 0
    /\ rightCount = 0
    /\ takeAmount = 0
    /\ U = 0
    /\ leftAtSplit = <<>>
    /\ rightAtSplit = <<>>
    /\ iters = 0

\* line 50 and the loop initialisation of line 51
Copy ==
    /\ pc = "call"
    /\ deck' = CopyTarget(deckInput)
    /\ heap' = [heap EXCEPT ![deck'] = heap[deckInput]]
    /\ i' = 0
    /\ clamped' = FALSE
    /\ pc' = "rep"
    /\ UNCHANGED <<deckInput, repetitions, splitError, packetError, leftHalf,
                   leftCount, rightCount, takeAmount, U, leftAtSplit,
                   rightAtSplit, iters>>
    /\ UNCHANGED <<fyVars, distVars, simVars>>

\* lines 51-55: one more repetition starts; the cut and the first cursor
Split ==
    /\ pc = "rep"
    /\ i < repetitions
    /\ \E u \in RandInt(9), v \in RandInt(splitError) :
        LET d == heap[deck]
            cutDeckVariant == TruncHalf(CutDeckVariant2(Len(d), u, splitError))
            lh == SpliceRemoved(d, 0, cutDeckVariant)
            rest == SpliceRest(d, 0, cutDeckVariant)
        IN  /\ leftHalf' = lh
            /\ heap' = [heap EXCEPT ![deck] = rest]
            /\ leftCount' = Len(lh)
            /\ rightCount' = Len(rest) - v
            /\ U' = u
            /\ leftAtSplit' = lh
            /\ rightAtSplit' = rest
            /\ clamped' = (clamped \/ ~InRange(cutDeckVariant, Len(d)))
    /\ iters' = 0
    /\ pc' = "loop"
    /\ takeAmount' = 0
    /\ UNCHANGED <<deckInput, repetitions, splitError, packetError, deck, i>>
    /\ UNCHANGED <<fyVars, distVars, simVars>>

\* lines 56-61: one iteration of the while loop (the model follows a
\* repetition for MaxIter iterations; the code sets no limit)
Interleave ==
    /\ pc = "loop"
    /\ leftCount > 0
    /\ iters < MaxIter
    /\ \E t \in RandInt(packetError), w \in RandInt(packetError) :
        /\ takeAmount' = t
        /\ leftHalf' = SpliceRest(leftHalf, leftCount, t)
        /\ heap' = [heap EXCEPT ![deck] =
                        SpliceInsert(@, rightCount, Packet(leftHalf, leftCount, t))]
        /\ leftCount' = leftCount - t
        /\ rightCount' = NextRightCount(rightCount, w, t)
    /\ clamped' = (clamped \/ ~InRange(rightCount, Len(heap[deck])))
    /\ iters' = iters + 1
    /\ U' = 0
    /\ UNCHANGED <<deckInput, repetitions, splitError, packetError, deck, i,
                   leftAtSplit, rightAtSplit, pc>>
    /\ UNCHANGED <<fyVars, distVars, simVars>>

\* line 62 and the increment of line 51: the loop is over, the rest of
\* leftHalf goes in at the cursor
Flush ==
    /\ pc = "loop"
    /\ leftCount <= 0
    /\ heap' = [heap EXCEPT ![deck] = SpliceInsert(@, rightCount, leftHalf)]
    /\ clamped' = (clamped \/ ~InRange(rightCount, Len(heap[deck])))
    /\ i' = i + 1
    /\ pc' = "rep"
    /\ leftHalf' = <<>>
    /\ leftCount' = 0
    /\ rightCount' = 0
    /\ takeAmount' = 0
    /\ U' = 0
    /\ leftAtSplit' = <<>>
    /\ rightAtSplit' = <<>>
    /\ iters' = 0
    /\ UNCHANGED <<deckInput, repetitions, splitError, packetError, deck>>
    /\ UNCHANGED <<fyVars, distVars, simVars>>

\* line 64, and in the simulation the push and the i++ of lines 100, 118, 136
Return ==
    /\ pc = "rep"
    /\ i >= repetitions
    /\ IF seed = "none"
       THEN /\ pc' = "done"
            /\ UNCHANGED simVars
       ELSE /\ shuffled' = [shuffled EXCEPT ![seed] = @ + 1]
            /\ simI' = simI + 1
            /\ pc' = "sim"
            /\ seed' = seed
    /\ UNCHANGED <<heap, riffleVars, fyVars, distVars>>

----------------------------------------------------------------------------
(* fisherYatesShuffle, src/index.js lines 67-75 *)

\* FYDraw as `Math.floor(Math.random() * i)`: j is never i itself
FYDrawBelow(k) == RandInt(k)

\* `Math.floor(Math.random() * (i + 1))`: the values j can take
FYDraw(k) == RandInt(k + 1)

\* `[array[i], array[j]] = [array[j], array[i]]` at indices k and j
Swap(a, k, j) ==
    [p \in 1..Len(a) |-> IF p = k + 1 THEN a[j + 1]
                         ELSE IF p = j + 1 THEN a[k + 1]
                         ELSE a[p]]

RECURSIVE FYApply(_, _)
\* lines 69-74: the array fisherYatesShuffle returns for a, when its draws
\* are ds (the draw for i = Len(a) - 1 first)
FYApply(a, ds) ==
    IF ds = <<>> THEN a
    ELSE LET k == Len(ds) IN Swap(FYApply(a, SubSeq(ds, 1, k - 1)), Len(a) - k, ds[k])

\* lines 69-73: one iteration of the for loop
FYStep ==
    /\ pc = "fy"
    /\ fyI > 0
    /\ \E j \in FYDraw(fyI) :
        /\ heap' = [heap EXCEPT ![array] = Swap(@, fyI, j)]
        /\ draws' = Append(draws, j)
    /\ fyI' = fyI - 1
    /\ UNCHANGED <<pc, array, fyInput, riffleVars, distVars, simVars>>

\* line 74; in the simulation the caller goes on at lines 99-100 with the
\* call riffleShuffle(randomizedUnordered, REPETITIONS, SPLIT_ERROR, PACKET_ERROR)
FYReturn ==
    /\ pc = "fy"
    /\ fyI <= 0
    /\ IF seed = "none"
       THEN /\ pc' = "done"
            /\ UNCHANGED <<draws, fyInput, deckInput, repetitions, splitError,
                           packetError>>
       ELSE /\ pc' = "call"
            /\ deckInput' = array
            /\ repetitions' = REPETITIONS
            /\ splitError' = SPLIT_ERROR
            /\ packetError' = PACKET_ERROR
            /\ draws' = <<>>
            /\ fyInput' = <<>>
    /\ UNCHANGED <<heap, array, fyI, deck, i, leftHalf, leftCount, rightCount,
                   takeAmount, U, leftAtSplit, rightAtSplit, iters, clamped,
                   distVars, simVars>>

----------------------------------------------------------------------------
(* calculateAverageDistance, src/index.js lines 77-93 *)

\* `distanceSum / count`: the quotient, kept as numerator and denominator
Quotient(n, d) == <<n, d>>

\* Gap as `i - lastOneIndex`: the distance, not the cards between
GapInclusive(idx, last) == idx - last

\* `i - lastOneIndex - 1`
Gap(idx, last) == idx - last - 1

\* lines 82-90: one iteration of the for loop
DistStep ==
    /\ pc = "dist"
    /\ distI < Len(distArray)
    /\ IF distArray[distI + 1] = 1
       THEN /\ IF lastOneIndex # -1
               THEN /\ distanceSum' = distanceSum + Gap(distI, lastOneIndex)
                    /\ count' = count + 1
               ELSE UNCHANGED <<distanceSum, count>>
            /\ lastOneIndex' = distI
       ELSE UNCHANGED <<distanceSum, count, lastOneIndex>>
    /\ distI' = distI + 1
    /\ UNCHANGED <<heap, pc, distArray, result, riffleVars, fyVars, simVars>>

\* line 92
DistReturn ==
    /\ pc = "dist"
    /\ distI >= Len(distArray)
    /\ result' = IF count > 0 THEN Quotient(distanceSum, count) ELSE <<0, 1>>
    /\ pc' = "done"
    /\ UNCHANGED <<heap, distArray, distI, distanceSum, count, lastOneIndex,
                   riffleVars, fyVars, simVars>>

----------------------------------------------------------------------------
(* The simulation loops, src/index.js lines 97-101, 116-119, 134-137 *)

\* lines 98-99: a trial of the unordered loop calls fisherYatesShuffle(unordered)
UnorderedTrial ==
    /\ pc = "sim"
    /\ seed = "unordered"
    /\ simI < MaxTrials
    /\ array' = "unordered"
    /\ fyI' = Len(heap["unordered"]) - 1
    /\ draws' = <<>>
    /\ fyInput' = heap["unordered"]
    /\ pc' = "fy"
    /\ UNCHANGED <<heap, riffleVars, distVars, simVars>>

\* lines 117-118: a trial of the bottom-stacked loop calls riffleShuffle
BottomStackedTrial ==
    /\ pc = "sim"
    /\ seed = "bottomStacked"
    /\ simI < MaxTrials
    /\ deckInput' = "bottomStacked"
    /\ repetitions' = REPETITIONS
    /\ splitError' = SPLIT_ERROR
    /\ packetError' = PACKET_ERROR
    /\ pc' = "call"
    /\ UNCHANGED <<heap, deck, i, leftHalf, leftCount, rightCount, takeAmount,
                   U, leftAtSplit, rightAtSplit, iters, clamped, fyVars,
                   distVars, simVars>>

\* lines 135-136: a trial of the piled loop calls riffleShuffle
PiledTrial ==
    /\ pc = "sim"
    /\ seed = "piled"
    /\ simI < MaxTrials
    /\ deckInput' = "piled"
    /\ repetitions' = REPETITIONS
    /\ splitError' = SPLIT_ERROR
    /\ packetError' = PACKET_ERROR
    /\ pc' = "call"
    /\ UNCHANGED <<heap, deck, i, leftHalf, leftCount, rightCount, takeAmount,
                   U, leftAtSplit, rightAtSplit, iters, clamped, fyVars,
                   distVars, simVars>>

\* the loop that follows the loop of seed s in the program
NextSeed(s) ==
    IF s = "unordered" THEN "bottomStacked"
    ELSE IF s = "bottomStacked" THEN "piled"
    ELSE "none"

\* a loop is over (lines 98, 117, 135: i reached its limit) and the next begins
LoopEnd ==
    /\ pc = "sim"
    /\ simI >= MaxTrials
    /\ seed' = NextSeed(seed)
    /\ simI' = 0
    /\ pc' = IF NextSeed(seed) = "none" THEN "done" ELSE "sim"
    /\ UNCHANGED <<heap, shuffled, riffleVars, fyVars, distVars>>

----------------------------------------------------------------------------
(* Inputs and initial states *)

Objects == {"input", "copy", "unordered", "bottomStacked", "piled"}

RECURSIVE SeqsUpTo(_, _)
\* the sequences over S of length at most n
SeqsUpTo(S, n) ==
    IF n = 0 THEN {<<>>}
    ELSE LET shorter == SeqsUpTo(S, n - 1)
         IN  shorter \cup {Append(q, x) : q \in {r \in shorter : Len(r) = n - 1}, x \in S}

\* a deck of n distinguishable cards
Distinct(n) == [k \in 1..n |-> 10 + k]

\* the decks handed to riffleShuffle: every deck of 0/1 markers, and decks
\* of distinguishable cards
Decks == SeqsUpTo({0, 1}, MaxLen) \cup {Distinct(n) : n \in 2..MaxLen}

\* the values of the variables of each part before it has run
RiffleIdle ==
    /\ deck = "copy"
    /\ i = 0
    /\ BodyLocalsGone
    /\ clamped = FALSE

NoCall ==
    /\ deckInput = Input
    /\ repetitions = 0
    /\ splitError = 0
    /\ packetError = 0

FYIdle ==
    /\ array = Input
    /\ fyI = 0
    /\ draws = <<>>
    /\ fyInput = <<>>

DistIdle ==
    /\ distArray = <<>>
    /\ distI = 0
    /\ distanceSum = 0
    /\ count = 0
    /\ lastOneIndex = -1
    /\ result = <<0, 1>>

SimIdle ==
    /\ seed = "none"
    /\ simI = 0
    /\ shuffled = [s \in {"unordered", "bottomStacked", "piled"} |-> 0]

\* a call riffleShuffle(deckInput, repetitions, splitError, packetError)
Init ==
    /\ RiffleIdle /\ FYIdle /\ DistIdle /\ SimIdle
    /\ pc = "call"
    /\ deckInput = Input
    /\ \E d \in Decks :
         heap = [o \in Objects |-> IF o = Input THEN d ELSE <<>>]
    /\ repetitions \in 0..MaxRepetitions
    /\ splitError \in 0..MaxSplitError
    /\ packetError \in 0..MaxPacketError

Next == Copy \/ Split \/ Interleave \/ Flush \/ Return

Spec == Init /\ [][Next]_vars

\* The seed arrays of lines 45-47, at the length DeckLen of the model:
\* all climaxes at the bottom; one climax at the bottom of every pile (piles
\* of two); a fixed arrangement that is neither
Climaxes == Max(1, DeckLen \div 3)
bottomStacked == [k \in 1..DeckLen |-> IF k > DeckLen - Climaxes THEN 1 ELSE 0]
piled == [k \in 1..DeckLen |-> IF k % 2 = 0 THEN 1 ELSE 0]
unordered == [k \in 1..DeckLen |-> IF k % 3 = 1 THEN 1 ELSE 0]

\* the arrays the program starts with
Globals ==
    [o \in Objects |->
        IF o = "unordered" THEN unordered
        ELSE IF o = "bottomStacked" THEN bottomStacked
        ELSE IF o = "piled" THEN piled
        ELSE <<>>]

\* the program: the three simulation loops, from line 97 on
InitSim ==
    /\ RiffleIdle /\ NoCall /\ FYIdle /\ DistIdle
    /\ seed = "unordered"
    /\ simI = 0
    /\ shuffled = [s \in {"unordered", "bottomStacked", "piled"} |-> 0]
    /\ pc = "sim"
    /\ heap = Globals

NextSim ==
    \/ UnorderedTrial \/ BottomStackedTrial \/ PiledTrial \/ LoopEnd
    \/ FYStep \/ FYReturn
    \/ Copy \/ Split \/ Interleave \/ Flush \/ Return

SpecSim == InitSim /\ [][NextSim]_vars

\* a call riffleShuffle(deckInput, ...) up to its first cut, on the decks
\* of Init and on a deck and a splitError of the program's size
InitSplit ==
    /\ RiffleIdle /\ FYIdle /\ DistIdle /\ SimIdle
    /\ pc = "call"
    /\ deckInput = Input
    /\ \E d \in Decks \cup {Distinct(DECK_LENGTH)} :
         heap = [o \in Objects |-> IF o = Input THEN d ELSE <<>>]
    /\ repetitions \in 1..(MaxRepetitions + 1)
    /\ splitError \in 0..MaxSplitError \cup {SPLIT_ERROR}
    /\ packetError \in 0..MaxPacketError

NextSplit == Copy \/ Split

SpecSplit == InitSplit /\ [][NextSplit]_vars

\* a call fisherYatesShuffle(array)
InitFY ==
    /\ RiffleIdle /\ NoCall /\ DistIdle /\ SimIdle
    /\ pc = "fy"
    /\ \E a \in SeqsUpTo({0, 1}, MaxFYLen) \cup {Distinct(n) : n \in 0..MaxFYLen} :
         /\ heap = [o \in Objects |-> IF o = Input THEN a ELSE <<>>]
         /\ fyI = Len(a) - 1
         /\ fyInput = a
    /\ array = Input
    /\ draws = <<>>

NextFY == FYStep \/ FYReturn

SpecFY == InitFY /\ [][NextFY]_vars

\* a call calculateAverageDistance(array)
InitDist ==
    /\ RiffleIdle /\ NoCall /\ FYIdle /\ SimIdle
    /\ pc = "dist"
    /\ heap = [o \in Objects |-> <<>>]
    /\ distArray \in SeqsUpTo({0, 1}, MaxDistLen)
    /\ distI = 0
    /\ distanceSum = 0
    /\ count = 0
    /\ lastOneIndex = -1
    /\ result = <<0, 1>>

NextDist == DistStep \/ DistReturn

SpecDist == InitDist /\ [][NextDist]_vars

----------------------------------------------------------------------------
(* Properties of riffleShuffle *)

\* the number of positions of a that hold v
CountOf(a, v) == Cardinality({p \in 1..Len(a) : a[p] = v})

\* the elements of a
Elements(a) == {a[p] : p \in 1..Len(a)}

\* a and b hold the same cards, each as often
SameCards(a, b) ==
    /\ Len(a) = Len(b)
    /\ \A v \in Elements(a) \cup Elements(b) \cup {0, 1} : CountOf(a, v) = CountOf(b, v)

\* the cards of a are distinguishable
IsDistinct(a) == \A p, q \in 1..Len(a) : a[p] = a[q] => p = q

\* C1: after every repetition of riffleShuffle, and when it returns, the deck
\* has the length of the input and as many 1-markers and as many 0-markers
\* (as many of every card) as the input, whatever the parameters and the
\* draws, clamped splices included.
C1_ShufflePermutes ==
    pc \in {"rep", "done"} => SameCards(heap[deck], heap[deckInput])

\* C1 witness: a call on a deck of both markers has returned after two
\* repetitions, some splice of it was clamped, and the order has changed.
C1_Witness ==
    /\ pc = "done"
    /\ i >= 2
    /\ clamped
    /\ Elements(heap[deckInput]) = {0, 1}
    /\ heap[deck] # heap[deckInput]

\* C6: the interleave loop of a repetition runs at most as many iterations
\* as the left half had cards when it was cut off.
C6_IterationsBounded ==
    pc = "loop" => iters <= Len(leftAtSplit)

\* C8: every interleave iteration moves exactly the last
\* min(takeAmount, cards left) cards of the left half, takeAmount being the
\* packet size drawn in that iteration: they leave the tail of leftHalf and
\* enter the deck as one block in their order.
C8_PacketFromTail ==
    [][(pc = "loop" /\ leftCount > 0) =>
          LET n == Len(leftHalf)
              k == Min(takeAmount', n)
              d == heap[deck]
          IN  /\ leftHalf' = SubSeq(leftHalf, 1, n - k)
              /\ \E pos \in 0..Len(d) :
                    heap'[deck] = SubSeq(d, 1, pos) \o SubSeq(leftHalf, n - k + 1, n)
                                    \o SubSeq(d, pos + 1, Len(d))]_vars

\* C9: whenever an insertion is about to be made (a packet or the final
\* flush), the cursor rightCount is a position of the deck being rebuilt:
\* 0 <= rightCount <= its current length.  (Stated for the repetitions whose
\* right remainder has at least splitError cards, as every repetition of the
\* program's own configuration has: there the cursor starts as a position.)
C9_CursorValid ==
    (pc = "loop" /\ Len(rightAtSplit) >= splitError) =>
        InRange(rightCount, Len(heap[deck]))

\* the position of card c in a
PosOf(a, c) == CHOOSE p \in 1..Len(a) : a[p] = c

\* the cards of part are in a in the order they have in part
OrderKept(part, a) ==
    \A p, q \in 1..Len(part) : p < q => PosOf(a, part[p]) < PosOf(a, part[q])

\* C10: a repetition on distinguishable cards yields an interleaving: the
\* cards of the right remainder keep their relative order, and so do the
\* cards of the left half.
C10_Interleaving ==
    [][(pc = "loop" /\ pc' = "rep" /\ IsDistinct(heap[deckInput])) =>
          /\ OrderKept(rightAtSplit, heap'[deck])
          /\ OrderKept(leftAtSplit, heap'[deck])]_vars

\* x brought into lo..hi
Clamp(x, lo, hi) == Max(lo, Min(x, hi))

\* C7: for every deck length n, even or odd, every splitError >= 0 and every
\* offset U in 0..8, the left half a repetition cuts off is the first
\* clamp(floor(n/2) + U - splitError, 0, n) cards of the deck, in order, and
\* the right remainder is the other cards; for n = DECK_LENGTH and
\* splitError = SPLIT_ERROR the left half has 21 to 29 cards and nothing is
\* clamped.
C7_SplitSize ==
    (pc = "loop" /\ iters = 0 /\ i = 0) =>
        LET d == heap[deckInput]
            n == Len(d)
            size == (n \div 2) + U - splitError
            k == Clamp(size, 0, n)
        IN  /\ U \in 0..8
            /\ Len(leftHalf) = k
            /\ leftHalf = SubSeq(d, 1, k)
            /\ heap[deck] = SubSeq(d, k + 1, n)
            /\ (n = DECK_LENGTH /\ splitError = SPLIT_ERROR) =>
                   (21 <= k /\ k <= 29 /\ k = size /\ ~clamped)

\* C7 witness: a deck of odd length has been cut where the computed size is
\* negative, and the left half is empty.
C7_Witness ==
    /\ pc = "loop"
    /\ iters = 0
    /\ Len(heap[deckInput]) % 2 = 1
    /\ (Len(heap[deckInput]) \div 2) + U - splitError < 0
    /\ leftHalf = <<>>
    /\ heap[deck] = heap[deckInput]

----------------------------------------------------------------------------
(* Properties of the simulation loops *)

\* C2: riffleShuffle never changes the array passed to it: throughout the
\* bottom-stacked and piled loops the arrays bottomStacked and piled have
\* their initial contents, so every trial of a fixed seed is handed an equal
\* deck.
C2_SeedsUnchanged ==
    /\ heap["bottomStacked"] = bottomStacked
    /\ heap["piled"] = piled
    /\ (pc = "call" /\ seed = "bottomStacked") => heap[deckInput] = bottomStacked
    /\ (pc = "call" /\ seed = "piled") => heap[deckInput] = piled
    /\ (pc \in {"rep", "loop"} /\ seed \in {"bottomStacked", "piled"}) =>
           deck # deckInput

\* C2 witness: the second trial of the piled loop is about to be handed
\* `piled`, after a first trial that returned a deck in another order.
C2_Witness ==
    /\ pc = "call"
    /\ seed = "piled"
    /\ simI >= 1
    /\ deckInput = "piled"
    /\ heap[deck] # piled
    /\ shuffled["bottomStacked"] >= 2

\* C5: trials share no state: the deck a trial of the unordered loop hands to
\* riffleShuffle is determined by the constant seed array and the draws of
\* that trial alone (it is what fisherYatesShuffle makes of the seed array
\* with these draws), whatever earlier trials drew.
C5_TrialsIndependent ==
    (pc = "fy" /\ fyI <= 0 /\ seed = "unordered") =>
        heap[array] = FYApply(unordered, draws)

----------------------------------------------------------------------------
(* Properties of calculateAverageDistance *)

\* the marked positions of a (0-based)
Marked(a) == {p \in 0..(Len(a) - 1) : a[p + 1] = 1}

\* the pairs p < q of consecutive marked positions of a
ConsecutivePairs(a) ==
    {pq \in Marked(a) \X Marked(a) :
        /\ pq[1] < pq[2]
        /\ ~ \E r \in Marked(a) : pq[1] < r /\ r < pq[2]}

RECURSIVE GapTotal(_)
\* the sum of q - p - 1 over the pairs <<p, q>> of P
GapTotal(P) ==
    IF P = {} THEN 0
    ELSE LET pq == CHOOSE x \in P : TRUE
         IN  (pq[2] - pq[1] - 1) + GapTotal(P \ {pq})

\* the quotient r = <<num, den>> is the number v
IsNumber(r, v) == r[2] > 0 /\ r[1] = v * r[2]

\* C3: calculateAverageDistance returns the sum of q - p - 1 over the pairs
\* p < q of consecutive marked positions, divided by the number of pairs; 0
\* when fewer than two cards are marked; never a negative number.  The cards
\* before the first mark and after the last add nothing.  The four literal
\* cases give 2, 0, 0 and 4.
C3_AverageDistance ==
    pc = "done" =>
        LET P == ConsecutivePairs(distArray)
        IN  /\ result[2] > 0
            /\ result[1] >= 0
            /\ P # {} => result[1] * Cardinality(P) = GapTotal(P) * result[2]
            /\ Cardinality(Marked(distArray)) < 2 => IsNumber(result, 0)
            /\ distArray = <<1, 0, 0, 1, 0, 0, 1>> => IsNumber(result, 2)
            /\ distArray = <<1, 1, 1>> => IsNumber(result, 0)
            /\ distArray = <<0, 0, 0>> => IsNumber(result, 0)
            /\ distArray = <<1, 0, 0, 0, 0, 1>> => IsNumber(result, 4)

\* C3 witness: the distance of a deck with unmarked cards before its first
\* mark and after its last, and two unequal gaps, has been returned.
C3_Witness ==
    /\ pc = "done"
    /\ distArray = <<0, 1, 0, 0, 1, 1, 0>>
    /\ result = <<2, 2>>

----------------------------------------------------------------------------
(* Properties of fisherYatesShuffle *)

RECURSIVE Factorial(_)
Factorial(n) == IF n <= 1 THEN 1 ELSE n * Factorial(n - 1)

\* the sequences of draws a call on an array of length n can make: one for
\* each i from n - 1 down to 1
DrawSeqs(n) ==
    {ds \in [1..(n - 1) -> 0..(n - 1)] : \A k \in 1..(n - 1) : ds[k] \in FYDraw(n - k)}

\* C4: fisherYatesShuffle on n elements makes exactly one draw for each i
\* from n - 1 down to 1, each in 0..i, and returns the elements of the input,
\* each as often; on distinguishable elements the map from draw sequences to
\* results is one-to-one and onto the n! orderings.
C4_FisherYatesBijection ==
    pc = "done" =>
        LET n == Len(fyInput)
            results == {FYApply(fyInput, ds) : ds \in DrawSeqs(n)}
        IN  /\ Len(draws) = Max(n - 1, 0)
            /\ \A k \in 1..Len(draws) : draws[k] \in 0..(n - k)
            /\ SameCards(heap[array], fyInput)
            /\ IsDistinct(fyInput) =>
                 /\ \A ds \in DrawSeqs(n) :
                       FYApply(fyInput, ds) = heap[array] => ds = draws
                 /\ Cardinality(results) = Factorial(n)
                 /\ \A r \in results : SameCards(r, fyInput)

\* C4 witness: a call on four distinguishable elements has returned them in
\* reverse order.
C4_Witness ==
    /\ pc = "done"
    /\ fyInput = Distinct(4)
    /\ heap[array] = <<14, 13, 12, 11>>
    /\ Len(draws) = 3

====
